---- MODULE Spec2Model ----
(***************************************************************************)
(* A model of the 2D bone system of src/bone_system.py: Bone, Chain and    *)
(* Skeleton.                                                               *)
(*                                                                         *)
(* Arithmetic.  The program computes in floating point; the model computes *)
(* the same expressions in exact arithmetic over the integers.  A          *)
(* coordinate or a length is an integer.  An angle is the direction it     *)
(* points to, a pair <<p, q>> of coprime integers standing for             *)
(* atan2(q, p), with <<1, 0>> the angle 0 (the value of atan2(0, 0)).      *)
(* cos and sin of <<p, q>> are p/n and q/n with n = sqrt(p*p + q*q).  An   *)
(* anchor is counted in units of 1/AnchorDen.  An operation is taken only  *)
(* on inputs for which every square root and quotient it computes is an    *)
(* integer (the Exact... guards), so that every modelled step is a step of *)
(* the program in real arithmetic.  Chain.update also rotates a bone by    *)
(* multiples of 0.05 rad, which no direction with integer coordinates      *)
(* stands for: the field turn of a bone counts the steps of 0.05 rad added *)
(* to its direction, and the end position of a bone is computed only where *)
(* turn is 0.                                                              *)
(***************************************************************************)
EXTENDS Integers, Sequences, FiniteSets

VARIABLES
    bone,       \* a Bone object built on its own: Bone(x, y, length, angle)
    skeleton,   \* the Skeleton: its world position
    chains,     \* the Chain objects, in creation order
    last        \* the last call: operation, arguments, return value, error

vars == <<bone, skeleton, chains, last>>

-----------------------------------------------------------------------------
(* Bounds of the model. *)

\* follow / ik targets and pointer positions have coordinates in -MaxCoord..MaxCoord
MaxCoord == 5
\* hit-test points have coordinates in -MaxHit..MaxHit
MaxHit == 20

\* no vector of the model is longer than MaxNorm
MaxNorm == 200

(* Program constants. *)

\* anchors are multiples of 1/AnchorDen: the 0.5 of Bone.__init__ is 1
AnchorDen == 2
\* contains(): dx*dx + dy*dy < 225
HitRadius2 == 225

-----------------------------------------------------------------------------
(* Arithmetic helpers. *)

Abs(n) == IF n < 0 THEN -n ELSE n

\* Python's max(a, b) and min(a, b)
max(a, b) == IF a >= b THEN a ELSE b
min(a, b) == IF a <= b THEN a ELSE b

RECURSIVE GCD(_, _)
GCD(a, b) == IF b = 0 THEN a ELSE GCD(b, a % b)

RECURSIVE SqrtSearch(_, _, _)
SqrtSearch(n, lo, hi) ==
    IF lo >= hi THEN lo
    ELSE LET mid == (lo + hi + 1) \div 2
         IN  IF mid * mid <= n THEN SqrtSearch(n, mid, hi)
             ELSE SqrtSearch(n, lo, mid - 1)

\* floor(sqrt(n)) for 0 <= n <= MaxNorm * MaxNorm, tabulated
SqrtTable == [n \in 0..(MaxNorm * MaxNorm) |-> SqrtSearch(n, 0, MaxNorm)]

ISqrt(n) == SqrtTable[n]

IsSquare(n) == ISqrt(n) * ISqrt(n) = n

\* pygame.math.Vector2.length() / math.sqrt(dx*dx + dy*dy), where it is an integer
vec_length(v) == ISqrt(v[1] * v[1] + v[2] * v[2])

\* math.atan2(dy, dx): the direction of (dx, dy); atan2(0, 0) is 0
atan2(dy, dx) ==
    IF dx = 0 /\ dy = 0 THEN <<1, 0>>
    ELSE LET g == GCD(Abs(dx), Abs(dy)) IN <<dx \div g, dy \div g>>

\* the angle 0
ZeroAngle == <<1, 0>>

\* math.cos(angle) * length and math.sin(angle) * length
cos_times(angle, length) == (angle[1] * length) \div vec_length(angle)
sin_times(angle, length) == (angle[2] * length) \div vec_length(angle)

\* cos(angle) * length and sin(angle) * length are integers
ExactAngle(angle, length) ==
    /\ IsSquare(angle[1] * angle[1] + angle[2] * angle[2])
    /\ (angle[1] * length) % vec_length(angle) = 0
    /\ (angle[2] * length) % vec_length(angle) = 0

\* Vector2.normalize_ip() followed by *= length, where the result is integral
ExactScale(v, length) ==
    /\ IsSquare(v[1] * v[1] + v[2] * v[2])
    /\ vec_length(v) > 0
    /\ (v[1] * length) % vec_length(v) = 0
    /\ (v[2] * length) % vec_length(v) = 0

scale_to(v, length) ==
    <<(v[1] * length) \div vec_length(v), (v[2] * length) \div vec_length(v)>>

\* Vector2.normalize_ip() raises ValueError on the zero vector
normalize_err(v) == IF v[1] = 0 /\ v[2] = 0 THEN "ValueError" ELSE "none"

-----------------------------------------------------------------------------
(* Bone *)

\* a missing sprite (None); a loaded sprite is its <<width, height>>
None == <<>>

\* Bone.__init__(x, y, length, angle); parent is the index of the parent
\* bone in its chain, 0 for no parent; the angle of the bone is the
\* direction angle turned by turn steps of 0.05 rad
Bone(x, y, length, angle) ==
    [x |-> x, y |-> y, original_length |-> length, angle |-> angle,
     turn |-> 0,
     length |-> length, parent |-> 0, selected |-> FALSE,
     sprite |-> None, sprite_original |-> None,
     visual_x |-> x, visual_y |-> y,
     anchor_x |-> AnchorDen \div 2, anchor_y |-> AnchorDen \div 2]

ExactBone(b) == b.turn = 0 /\ ExactAngle(b.angle, b.length)

\* Bone.end_pos()
end_pos(b) ==
    <<b.x + cos_times(b.angle, b.length), b.y + sin_times(b.angle, b.length)>>

\* Bone.update_visual_position()
update_visual_position(b) ==
    IF b.sprite_original # None
    THEN LET offset_x == (b.anchor_x * b.sprite_original[1]) \div AnchorDen
             offset_y == (b.anchor_y * b.sprite_original[2]) \div AnchorDen
         IN  [b EXCEPT !.visual_x = b.x - offset_x, !.visual_y = b.y - offset_y]
    ELSE [b EXCEPT !.visual_x = b.x, !.visual_y = b.y]

\* set_anchor without the clamp
set_anchor_unclamped(b, anchor_x, anchor_y) ==
    [b EXCEPT !.anchor_x = anchor_x, !.anchor_y = anchor_y]

\* Bone.set_anchor(anchor_x, anchor_y)
set_anchor(b, anchor_x, anchor_y) ==
    [b EXCEPT !.anchor_x = max(0, min(AnchorDen, anchor_x)),
              !.anchor_y = max(0, min(AnchorDen, anchor_y))]

\* a / den raises ZeroDivisionError when den is 0
div_err(den) == IF den = 0 THEN "ZeroDivisionError" ELSE "none"

\* the guard of follow(): target.length() > 0
follow_guard(target) == target[1] * target[1] + target[2] * target[2] > 0

\* follow with the pivot put ahead of the target instead of behind it
follow_ahead(b, tx, ty) ==
    LET target == <<tx - b.x, ty - b.y>>
        b1 == [b EXCEPT !.angle = atan2(target[2], target[1]), !.turn = 0]
        b2 == IF follow_guard(target)
              THEN LET t == scale_to(target, b1.length)
                   IN  [b1 EXCEPT !.x = tx + t[1], !.y = ty + t[2]]
              ELSE b1
    IN  update_visual_position(b2)

\* follow keeping the pivot and stretching the bone to the target
follow_stretching(b, tx, ty) ==
    LET target == <<tx - b.x, ty - b.y>>
    IN  update_visual_position(
            [b EXCEPT !.angle = atan2(target[2], target[1]), !.turn = 0,
                      !.length = vec_length(target)])

\* Bone.follow(tx, ty)
follow(b, tx, ty) ==
    LET target == <<tx - b.x, ty - b.y>>
        b1 == [b EXCEPT !.angle = atan2(target[2], target[1]), !.turn = 0]
        b2 == IF follow_guard(target)
              THEN LET t == scale_to(target, b1.length)
                   IN  [b1 EXCEPT !.x = tx - t[1], !.y = ty - t[2]]
              ELSE b1
    IN  update_visual_position(b2)

\* the exception follow() ends in, "none" for a normal return
follow_err(b, tx, ty) ==
    LET target == <<tx - b.x, ty - b.y>>
    IN  IF follow_guard(target) THEN normalize_err(target) ELSE "none"

\* follow(tx, ty) computes in integers
ExactFollow(b, tx, ty) ==
    LET target == <<tx - b.x, ty - b.y>>
    IN  follow_guard(target) => ExactScale(target, b.length)

\* the guard of the division in contains(): "... if C*C + D*D else 0"
contains_guard(den) == den # 0

\* contains with <= in place of <
contains_le(b, px, py) ==
    LET e == end_pos(b)
        A == px - b.x
        B == py - b.y
        C == e[1] - b.x
        D == e[2] - b.y
        td == IF contains_guard(C * C + D * D) THEN C * C + D * D ELSE 1
        t0 == IF contains_guard(C * C + D * D) THEN A * C + B * D ELSE 0
        tn == max(0, min(td, t0))
        dx == A * td - tn * C
        dy == B * td - tn * D
    IN  dx * dx + dy * dy <= HitRadius2 * td * td

\* Bone.contains(px, py); t is the fraction tn / td
contains(b, px, py) ==
    LET e == end_pos(b)
        A == px - b.x
        B == py - b.y
        C == e[1] - b.x
        D == e[2] - b.y
        td == IF contains_guard(C * C + D * D) THEN C * C + D * D ELSE 1
        t0 == IF contains_guard(C * C + D * D) THEN A * C + B * D ELSE 0
        tn == max(0, min(td, t0))
        dx == A * td - tn * C       \* td * (px - (x + t*C))
        dy == B * td - tn * D       \* td * (py - (y + t*D))
    IN  dx * dx + dy * dy < HitRadius2 * td * td

\* the exception contains() ends in, "none" for a normal return
contains_err(b, px, py) ==
    LET e == end_pos(b)
        C == e[1] - b.x
        D == e[2] - b.y
    IN  IF contains_guard(C * C + D * D) THEN div_err(C * C + D * D) ELSE "none"

-----------------------------------------------------------------------------
(* File names are sequences of characters. *)

lower_char(ch) ==
    CASE ch = "A" -> "a" [] ch = "B" -> "b" [] ch = "C" -> "c"
      [] ch = "D" -> "d" [] ch = "E" -> "e" [] ch = "F" -> "f"
      [] ch = "G" -> "g" [] ch = "H" -> "h" [] ch = "I" -> "i"
      [] ch = "J" -> "j" [] ch = "K" -> "k" [] ch = "L" -> "l"
      [] ch = "M" -> "m" [] ch = "N" -> "n" [] ch = "O" -> "o"
      [] ch = "P" -> "p" [] ch = "Q" -> "q" [] ch = "R" -> "r"
      [] ch = "S" -> "s" [] ch = "T" -> "t" [] ch = "U" -> "u"
      [] ch = "V" -> "v" [] ch = "W" -> "w" [] ch = "X" -> "x"
      [] ch = "Y" -> "y" [] ch = "Z" -> "z"
      [] OTHER -> ch

\* str.lower()
lower(s) == [i \in 1..Len(s) |-> lower_char(s[i])]

\* str.endswith(suffix)
endswith(s, suffix) ==
    /\ Len(s) >= Len(suffix)
    /\ SubSeq(s, Len(s) - Len(suffix) + 1, Len(s)) = suffix

endswith_any(s, suffixes) == \E suffix \in suffixes : endswith(s, suffix)

\* set_anchor_from_filename() without filename.lower()
set_anchor_from_filename_cased(b, filename) ==
    LET filename_lower == filename
        zero == 0
        half == AnchorDen \div 2
        one == AnchorDen
        put(ax, ay) == [b EXCEPT !.anchor_x = ax, !.anchor_y = ay]
    IN  IF endswith_any(filename_lower,
                        {<<"_", "l", ".", "p", "n", "g">>,
                         <<"_", "l", "e", "f", "t", ".", "p", "n", "g">>})
        THEN put(one, half)
        ELSE IF endswith_any(filename_lower,
                        {<<"_", "r", ".", "p", "n", "g">>,
                         <<"_", "r", "i", "g", "h", "t", ".", "p", "n", "g">>})
        THEN put(zero, half)
        ELSE IF endswith_any(filename_lower,
                        {<<"_", "u", ".", "p", "n", "g">>,
                         <<"_", "u", "p", ".", "p", "n", "g">>})
        THEN put(half, one)
        ELSE IF endswith_any(filename_lower,
                        {<<"_", "d", ".", "p", "n", "g">>,
                         <<"_", "d", "o", "w", "n", ".", "p", "n", "g">>})
        THEN put(half, zero)
        ELSE IF b.sprite_original # None
        THEN (IF b.sprite_original[1] >= b.sprite_original[2]
              THEN put(zero, half)
              ELSE put(half, zero))
        ELSE put(zero, half)

\* Bone.set_anchor_from_filename(filename); the anchors 0.0, 0.5, 1.0 are
\* 0, AnchorDen \div 2, AnchorDen
set_anchor_from_filename(b, filename) ==
    LET filename_lower == lower(filename)
        zero == 0
        half == AnchorDen \div 2
        one == AnchorDen
        put(ax, ay) == [b EXCEPT !.anchor_x = ax, !.anchor_y = ay]
    IN  IF endswith_any(filename_lower,
                        {<<"_", "l", ".", "p", "n", "g">>,
                         <<"_", "l", "e", "f", "t", ".", "p", "n", "g">>})
        THEN put(one, half)
        ELSE IF endswith_any(filename_lower,
                        {<<"_", "r", ".", "p", "n", "g">>,
                         <<"_", "r", "i", "g", "h", "t", ".", "p", "n", "g">>})
        THEN put(zero, half)
        ELSE IF endswith_any(filename_lower,
                        {<<"_", "u", ".", "p", "n", "g">>,
                         <<"_", "u", "p", ".", "p", "n", "g">>})
        THEN put(half, one)
        ELSE IF endswith_any(filename_lower,
                        {<<"_", "d", ".", "p", "n", "g">>,
                         <<"_", "d", "o", "w", "n", ".", "p", "n", "g">>})
        THEN put(half, zero)
        ELSE IF b.sprite_original # None
        THEN (IF b.sprite_original[1] >= b.sprite_original[2]
              THEN put(zero, half)
              ELSE put(half, zero))
        ELSE put(zero, half)

\* Bone.load_sprite(sprite_path, auto_anchor); image is what
\* pygame.image.load returns: the <<width, height>> of the surface, or None
\* when it raises pygame.error
load_sprite(b, sprite_path, auto_anchor, image) ==
    IF image # None
    THEN LET b1 == [b EXCEPT !.sprite_original = image, !.sprite = image,
                             !.length = image[1]]
         IN  IF auto_anchor THEN set_anchor_from_filename(b1, sprite_path)
             ELSE b1
    ELSE [b EXCEPT !.sprite = None, !.sprite_original = None,
                   !.length = b.original_length]

-----------------------------------------------------------------------------
(* Chain *)

\* Bone.update() moving the bone to the pivot of its parent
bone_update_to_pivot(bones, i) ==
    IF bones[i].parent # 0
    THEN update_visual_position(
             [bones[i] EXCEPT !.x = bones[bones[i].parent].x,
                              !.y = bones[bones[i].parent].y])
    ELSE bones[i]

\* Bone.update() of bones[i]: move to the end of the parent
bone_update(bones, i) ==
    IF bones[i].parent # 0
    THEN LET parent_end == end_pos(bones[bones[i].parent])
         IN  update_visual_position(
                 [bones[i] EXCEPT !.x = parent_end[1], !.y = parent_end[2]])
    ELSE bones[i]

\* "for bone in self.bones: bone.update()", from bones[i] on
RECURSIVE fk_loop(_, _)
fk_loop(bones, i) ==
    IF i > Len(bones) THEN bones
    ELSE fk_loop([bones EXCEPT ![i] = bone_update(bones, i)], i + 1)

\* Chain.fk()
fk(bones) == fk_loop(bones, 1)

\* fk() computes in integers: every bone it reads the end position of has
\* one with integer coordinates
ExactFk(bones) == \A i \in 1..(Len(bones) - 1) : ExactBone(bones[i])

\* the first loop of ik(): bones[i] follows (tx, ty), each earlier bone
\* follows the pivot of its successor
RECURSIVE ik_backward(_, _, _, _)
ik_backward(bones, i, tx, ty) ==
    IF i = 0 THEN bones
    ELSE LET b == follow(bones[i], tx, ty)
         IN  ik_backward([bones EXCEPT ![i] = b], i - 1, b.x, b.y)

RECURSIVE ik_backward_err(_, _, _, _)
ik_backward_err(bones, i, tx, ty) ==
    IF i = 0 THEN "none"
    ELSE IF follow_err(bones[i], tx, ty) # "none"
    THEN follow_err(bones[i], tx, ty)
    ELSE LET b == follow(bones[i], tx, ty)
         IN  ik_backward_err(bones, i - 1, b.x, b.y)

RECURSIVE ExactBackward(_, _, _, _)
ExactBackward(bones, i, tx, ty) ==
    IF i = 0 THEN TRUE
    ELSE /\ ExactFollow(bones[i], tx, ty)
         /\ LET b == follow(bones[i], tx, ty)
            IN  ExactBackward(bones, i - 1, b.x, b.y)

\* ik() without the restoring of the base
ik_no_restore(bones, base) == bones

\* "self.bones[0].x, self.bones[0].y = base" and the visual position
ik_restore(bones, base) ==
    [bones EXCEPT ![1] = update_visual_position(
                             [bones[1] EXCEPT !.x = base[1], !.y = base[2]])]

\* the guard of the second loop of ik(): dist > 0
ik_guard(dx, dy) == dx * dx + dy * dy > 0

\* the second loop of ik() with the arguments of atan2 swapped
ik_forward_step_swapped(bones, i) ==
    LET p == end_pos(bones[i - 1])
        e == end_pos(bones[i])
        dx == e[1] - p[1]
        dy == e[2] - p[2]
    IN  IF ik_guard(dx, dy)
        THEN update_visual_position(
                 [bones[i] EXCEPT
                     !.x = p[1], !.y = p[2],
                     !.angle = atan2(dx * bones[i].length, dy * bones[i].length),
                     !.turn = 0])
        ELSE bones[i]

\* the second loop of ik() without its test "if dist > 0"
ik_forward_step_unguarded(bones, i) ==
    LET p == end_pos(bones[i - 1])
        e == end_pos(bones[i])
        dx == e[1] - p[1]
        dy == e[2] - p[2]
    IN  update_visual_position(
            [bones[i] EXCEPT
                !.x = p[1], !.y = p[2],
                !.angle = atan2(dy * bones[i].length, dx * bones[i].length),
                !.turn = 0])

\* one round of the second loop of ik(), for bones[i], i > 1
ik_forward_step(bones, i) ==
    LET p == end_pos(bones[i - 1])
        e == end_pos(bones[i])
        dx == e[1] - p[1]
        dy == e[2] - p[2]
    IN  IF ik_guard(dx, dy)
        THEN update_visual_position(
                 [bones[i] EXCEPT
                     !.x = p[1], !.y = p[2],
                     !.angle = atan2(dy * bones[i].length, dx * bones[i].length),
                     !.turn = 0])
        ELSE bones[i]

\* ik() without its second loop
ik_forward_skipped(bones, i) == bones

RECURSIVE ik_forward(_, _)
ik_forward(bones, i) ==
    IF i > Len(bones) THEN bones
    ELSE ik_forward([bones EXCEPT ![i] = ik_forward_step(bones, i)], i + 1)

RECURSIVE ik_forward_err(_, _)
ik_forward_err(bones, i) ==
    IF i > Len(bones) THEN "none"
    ELSE LET p == end_pos(bones[i - 1])
             e == end_pos(bones[i])
             dx == e[1] - p[1]
             dy == e[2] - p[2]
             err == IF ik_guard(dx, dy) THEN div_err(dx * dx + dy * dy)
                    ELSE "none"
         IN  IF err # "none" THEN err
             ELSE ik_forward_err(
                      [bones EXCEPT ![i] = ik_forward_step(bones, i)], i + 1)

RECURSIVE ExactForward(_, _)
ExactForward(bones, i) ==
    IF i > Len(bones) THEN TRUE
    ELSE /\ ExactBone(ik_forward_step(bones, i))
         /\ ExactForward([bones EXCEPT ![i] = ik_forward_step(bones, i)], i + 1)

\* Chain.ik(tx, ty)
ik(bones, tx, ty) ==
    LET base == <<bones[1].x, bones[1].y>>
    IN  ik_forward(ik_restore(ik_backward(bones, Len(bones), tx, ty), base), 2)

\* the exception ik() ends in, "none" for a normal return
ik_err(bones, tx, ty) ==
    LET base == <<bones[1].x, bones[1].y>>
    IN  IF ik_backward_err(bones, Len(bones), tx, ty) # "none"
        THEN ik_backward_err(bones, Len(bones), tx, ty)
        ELSE ik_forward_err(
                 ik_restore(ik_backward(bones, Len(bones), tx, ty), base), 2)

\* ik(tx, ty) computes in integers
ExactIk(bones, tx, ty) ==
    LET base == <<bones[1].x, bones[1].y>>
    IN  /\ ExactBackward(bones, Len(bones), tx, ty)
        /\ ExactForward(
               ik_restore(ik_backward(bones, Len(bones), tx, ty), base), 2)

\* Chain.get_world_x() and get_world_y(); c.parent_skeleton tells whether
\* the chain has a parent skeleton, sk
get_world_x(c, sk) == c.local_x + (IF c.parent_skeleton THEN sk.x ELSE 0)
get_world_y(c, sk) == c.local_y + (IF c.parent_skeleton THEN sk.y ELSE 0)

\* the sum of the lengths the bones were created with
RECURSIVE sum_original_lengths(_, _)
sum_original_lengths(bones, i) ==
    IF i > Len(bones) THEN 0
    ELSE bones[i].original_length + sum_original_lengths(bones, i + 1)

\* sum(bone.length for bone in self.bones), from bones[i] on
RECURSIVE sum_lengths(_, _)
sum_lengths(bones, i) ==
    IF i > Len(bones) THEN 0 ELSE bones[i].length + sum_lengths(bones, i + 1)

\* a list argument that may be None
NoList == [none |-> TRUE, items |-> <<>>]
List(items) == [none |-> FALSE, items |-> items]

\* "if positions": neither None nor empty
truthy(list) == ~list.none /\ Len(list.items) > 0

\* the bones Chain.__init__ creates in its first loop
init_bones(c, sk, lengths, positions) ==
    [i \in 1..Len(lengths) |->
        LET at == IF truthy(positions) /\ i - 1 < Len(positions.items)
                  THEN positions.items[i]
                  ELSE <<get_world_x(c, sk), get_world_y(c, sk)>>
        IN  [Bone(at[1], at[2], lengths[i], ZeroAngle) EXCEPT !.parent = i - 1]]

\* the second loop of Chain.__init__: sprite and anchor of every bone;
\* image is what loading a sprite gives
init_sprites(bones, anchors, sprite_paths, image) ==
    [i \in 1..Len(bones) |->
        LET path == IF truthy(sprite_paths) /\ i - 1 < Len(sprite_paths.items)
                    THEN sprite_paths.items[i]
                    ELSE <<"b", "o", "n", "e", ".", "p", "n", "g">>
            b == load_sprite(bones[i], path, anchors.none, image)
        IN  IF truthy(anchors) /\ i - 1 < Len(anchors.items)
            THEN set_anchor(b, anchors.items[i][1], anchors.items[i][2])
            ELSE b]

\* the third loop of Chain.__init__ running bone.update() in both branches
init_layout_always_fk(bones, positions) == fk(bones)

\* the third loop of Chain.__init__
init_layout(bones, positions) ==
    IF ~truthy(positions) THEN fk(bones)
    ELSE [i \in 1..Len(bones) |-> update_visual_position(bones[i])]

\* Chain.__init__(x, y, lengths, is_ik, positions, anchors, sprite_paths,
\* parent_skeleton), for a non-empty list of lengths
Chain(x, y, lengths, is_ik, positions, anchors, sprite_paths, parent_skeleton, sk, image) ==
    LET c0 == [local_x |-> x, local_y |-> y, parent_skeleton |-> parent_skeleton]
        laid == init_layout(
                    init_sprites(init_bones(c0, sk, lengths, positions),
                                 anchors, sprite_paths, image),
                    positions)
        bones == [laid EXCEPT ![1].selected = TRUE]
    IN  [bones |-> bones, parent_skeleton |-> parent_skeleton,
         local_x |-> x, local_y |-> y, is_ik |-> is_ik, mode |-> 0,
         selected |-> 0,
         target |-> IF is_ik
                    THEN <<get_world_x(c0, sk) + sum_lengths(bones, 1),
                           get_world_y(c0, sk)>>
                    ELSE None]

\* the exception Chain.__init__ ends in: self.bones[0] of an empty list
Chain_err(lengths) == IF Len(lengths) = 0 THEN "IndexError" ELSE "none"

\* update_world_positions() without the moving of the base bone
update_world_positions_no_root(c, sk) ==
    IF ~c.parent_skeleton THEN c
    ELSE IF c.is_ik /\ c.target # None
         THEN [c EXCEPT !.bones = ik(c.bones, c.target[1], c.target[2])]
         ELSE [c EXCEPT !.bones = fk(c.bones)]

\* update_world_positions() moving the target of an IK chain with the chain
update_world_positions_moving_target(c, sk) ==
    IF ~c.parent_skeleton THEN c
    ELSE LET root == update_visual_position(
                         [c.bones[1] EXCEPT !.x = get_world_x(c, sk),
                                            !.y = get_world_y(c, sk)])
             bones == [c.bones EXCEPT ![1] = root]
             target == <<c.target[1] + get_world_x(c, sk) - c.bones[1].x,
                         c.target[2] + get_world_y(c, sk) - c.bones[1].y>>
         IN  IF c.is_ik /\ c.target # None
             THEN [c EXCEPT !.bones = ik(bones, target[1], target[2]),
                            !.target = target]
             ELSE [c EXCEPT !.bones = fk(bones)]

\* Chain.update_world_positions()
update_world_positions(c, sk) ==
    IF ~c.parent_skeleton THEN c
    ELSE LET root == update_visual_position(
                         [c.bones[1] EXCEPT !.x = get_world_x(c, sk),
                                            !.y = get_world_y(c, sk)])
             bones == [c.bones EXCEPT ![1] = root]
         IN  IF c.is_ik /\ c.target # None
             THEN [c EXCEPT !.bones = ik(bones, c.target[1], c.target[2])]
             ELSE [c EXCEPT !.bones = fk(bones)]

\* update_world_positions() computes in integers
ExactWorld(c, sk) ==
    c.parent_skeleton =>
        IF c.is_ik /\ c.target # None
        THEN ExactIk([c.bones EXCEPT ![1].x = get_world_x(c, sk),
                                     ![1].y = get_world_y(c, sk)],
                     c.target[1], c.target[2])
        ELSE ExactFk(c.bones)

\* the index of the first bone from bones[i] on that contains (mx, my),
\* 0 if there is none
RECURSIVE first_hit(_, _, _, _)
first_hit(bones, i, mx, my) ==
    IF i > Len(bones) THEN 0
    ELSE IF contains(bones[i], mx, my) THEN i
    ELSE first_hit(bones, i + 1, mx, my)

\* "for b in self.bones: b.selected = False; bone.selected = True;
\* self.selected = i", for bones[i]
select_only(c, i) ==
    [c EXCEPT !.bones = [j \in 1..Len(c.bones) |->
                            [c.bones[j] EXCEPT !.selected = (j = i)]],
              !.selected = i - 1]

\* select_bone() selecting the last bone that contains the point
select_bone_last_hit(c, mx, my) ==
    LET hits == {i \in 1..Len(c.bones) : contains(c.bones[i], mx, my)}
    IN  IF c.is_ik \/ hits = {} THEN c
        ELSE select_only(c, CHOOSE i \in hits : \A j \in hits : j <= i)

\* select_bone() without the test "if not self.is_ik"
select_bone_any_chain(c, mx, my) ==
    IF first_hit(c.bones, 1, mx, my) = 0 THEN c
    ELSE select_only(c, first_hit(c.bones, 1, mx, my))

\* Chain.select_bone(mx, my): the chain after the call
select_bone(c, mx, my) ==
    IF c.is_ik \/ first_hit(c.bones, 1, mx, my) = 0 THEN c
    ELSE select_only(c, first_hit(c.bones, 1, mx, my))

\* Chain.select_bone(mx, my): the value returned
select_bone_ret(c, mx, my) == ~c.is_ik /\ first_hit(c.bones, 1, mx, my) # 0

\* select_bone(mx, my) computes in integers: every bone it tests has an
\* end position with integer coordinates
ExactSelect(c, mx, my) ==
    c.is_ik \/
    \A i \in 1..Len(c.bones) :
        (\A j \in 1..(i - 1) :
            ExactBone(c.bones[j]) /\ ~contains(c.bones[j], mx, my))
        => ExactBone(c.bones[i])

\* math.sin(n * pi / 2) and math.cos(n * pi / 2)
sin_quarter(n) ==
    CASE n % 4 = 0 -> 0 [] n % 4 = 1 -> 1 [] n % 4 = 2 -> 0 [] OTHER -> -1
cos_quarter(n) == sin_quarter(n + 1)

\* Chain.update, Animated, IK: the target at time = time * pi / 2
animated_target(c, sk, time) ==
    <<get_world_x(c, sk) + 100 + cos_quarter(2 * time) * 80,
      get_world_y(c, sk) + sin_quarter(3 * time) * 40>>

\* Chain.update, Animated, FK: the angles at time = time * pi / 2, in steps
\* of 0.05 rad (0.5, 0.7 and 0.9 are 10, 14 and 18 steps)
animated_angles(time) ==
    <<10 * sin_quarter(2 * time), 14 * sin_quarter(3 * time),
      18 * sin_quarter(4 * time)>>

\* Chain.update, Keyboard, FK, UP and DOWN without the deselecting of the
\* bone that was selected
select_step_keep(c, d) ==
    LET selected == (c.selected + d) % Len(c.bones)
    IN  [c EXCEPT !.bones[selected + 1].selected = TRUE,
                  !.selected = selected]

\* UP and DOWN stopping at the first and at the last bone
select_step_no_wrap(c, d) ==
    LET selected == max(0, min(Len(c.bones) - 1, c.selected + d))
        off == [c.bones EXCEPT ![c.selected + 1].selected = FALSE]
    IN  [c EXCEPT !.bones = [off EXCEPT ![selected + 1].selected = TRUE],
                  !.selected = selected]

\* Chain.update, Keyboard, FK, UP (d = -1) and DOWN (d = 1): the selection
\* moves to the bone before or after the selected one
select_step(c, d) ==
    LET selected == (c.selected + d) % Len(c.bones)
        off == [c.bones EXCEPT ![c.selected + 1].selected = FALSE]
    IN  [c EXCEPT !.bones = [off EXCEPT ![selected + 1].selected = TRUE],
                  !.selected = selected]

\* Chain.update, Keyboard, FK, LEFT (d = -1) and RIGHT (d = 1): the angle
\* of the selected bone changes by spd = 0.05
rotate_step(c, d) == [c EXCEPT !.bones[c.selected + 1].turn = @ + d]

\* the target moving by 1 for a key
target_step_by_one(c, dx, dy) ==
    [c EXCEPT !.target = <<c.target[1] + dx, c.target[2] + dy>>]

\* Chain.update, Keyboard, IK: the target moves by spd = 3
target_step(c, dx, dy) ==
    [c EXCEPT !.target = <<c.target[1] + 3 * dx, c.target[2] + 3 * dy>>]

\* what update(time, mx, my, keys) reads of its arguments: time in the
\* Animated mode, (mx, my) in the Mouse mode, keys in the Keyboard mode
update_reads(c, time, mx, my, keys) ==
    [time |-> IF c.mode = 0 THEN time ELSE 0,
     mouse |-> IF c.mode = 2 THEN <<mx, my>> ELSE <<0, 0>>,
     keys |-> IF c.mode = 3 THEN keys ELSE {}]

\* Chain.update(time, mx, my, keys): the chain before the call of ik() or
\* fk() that ends the branch of its mode; keys is the set of the arrow keys
\* that are down
update_pre(c, sk, time, mx, my, keys) ==
    IF c.mode = 0 THEN
        IF c.is_ik THEN [c EXCEPT !.target = animated_target(c, sk, time)]
        ELSE [c EXCEPT !.bones =
                 [i \in 1..Len(c.bones) |->
                     IF i <= 3
                     THEN [c.bones[i] EXCEPT !.angle = ZeroAngle,
                                             !.turn = animated_angles(time)[i]]
                     ELSE c.bones[i]]]
    ELSE IF c.mode = 2 THEN
        IF c.is_ik THEN [c EXCEPT !.target = <<mx, my>>]
        ELSE LET b == c.bones[c.selected + 1]
             IN  [c EXCEPT !.bones[c.selected + 1] =
                     [b EXCEPT !.angle = atan2(my - b.y, mx - b.x), !.turn = 0]]
    ELSE IF c.mode = 3 THEN
        IF c.is_ik
        THEN LET c1 == IF "LEFT" \in keys THEN target_step(c, -1, 0) ELSE c
                 c2 == IF "RIGHT" \in keys THEN target_step(c1, 1, 0) ELSE c1
                 c3 == IF "UP" \in keys THEN target_step(c2, 0, -1) ELSE c2
             IN  IF "DOWN" \in keys THEN target_step(c3, 0, 1) ELSE c3
        ELSE LET c1 == IF "LEFT" \in keys THEN rotate_step(c, -1) ELSE c
                 c2 == IF "RIGHT" \in keys THEN rotate_step(c1, 1) ELSE c1
                 c3 == IF "UP" \in keys THEN select_step(c2, -1) ELSE c2
             IN  IF "DOWN" \in keys THEN select_step(c3, 1) ELSE c3
    ELSE c

\* the call of ik() or fk() that ends a branch of Chain.update
update_run(c) ==
    IF c.is_ik THEN [c EXCEPT !.bones = ik(c.bones, c.target[1], c.target[2])]
    ELSE [c EXCEPT !.bones = fk(c.bones)]

\* Chain.update() running the Mouse branch in the Static mode
update_static_as_mouse(c, sk, time, mx, my, keys) ==
    IF c.mode = 1
    THEN [update_run(update_pre([c EXCEPT !.mode = 2], sk, time, mx, my, keys))
             EXCEPT !.mode = 1]
    ELSE update_run(update_pre(c, sk, time, mx, my, keys))

\* Chain.update() leaving the Animated mode once it has run
update_leaving_animated(c, sk, time, mx, my, keys) ==
    IF c.mode \in {0, 2, 3}
    THEN [update_run(update_pre(c, sk, time, mx, my, keys))
             EXCEPT !.mode = IF c.mode = 0 THEN 1 ELSE c.mode]
    ELSE c

\* Chain.update(time, mx, my, keys)
update(c, sk, time, mx, my, keys) ==
    IF c.mode \in {0, 2, 3}
    THEN update_run(update_pre(c, sk, time, mx, my, keys))
    ELSE c

\* the exception update() ends in, "none" for a normal return
update_err(c, sk, time, mx, my, keys) ==
    IF c.mode \in {0, 2, 3} /\ c.is_ik
    THEN LET c1 == update_pre(c, sk, time, mx, my, keys)
         IN  ik_err(c1.bones, c1.target[1], c1.target[2])
    ELSE "none"

\* update(time, mx, my, keys) computes in integers: ik() does, and fk()
\* reads the end position of bones without a turn only
ExactUpdate(c, sk, time, mx, my, keys) ==
    LET c1 == update_pre(c, sk, time, mx, my, keys)
    IN  c.mode \in {0, 2, 3} =>
            IF c.is_ik THEN ExactIk(c1.bones, c1.target[1], c1.target[2])
            ELSE ExactFk(c1.bones)

-----------------------------------------------------------------------------
(* Skeleton *)

\* Skeleton.move(dx, dy): the skeleton after "self.x += dx; self.y += dy"
move(sk, dx, dy) == [sk EXCEPT !.x = sk.x + dx, !.y = sk.y + dy]

\* Skeleton.__init__(name, x, y, chains), where chains lists the Chain
\* objects cs followed by the dictionaries cfgs: the chains of the new
\* skeleton; image is what loading the sprites of the chains of cfgs gives
Skeleton_chains(x, y, cs, cfgs, image) ==
    LET sk == [x |-> x, y |-> y]
        adopted == [i \in 1..Len(cs) |-> [cs[i] EXCEPT !.parent_skeleton = TRUE]]
        added == [i \in 1..Len(cfgs) |->
                     Chain(cfgs[i].x, cfgs[i].y, cfgs[i].lengths, cfgs[i].is_ik,
                           cfgs[i].positions, cfgs[i].anchors,
                           cfgs[i].sprite_paths, TRUE, sk, image)]
    IN  adopted \o added

\* Skeleton.set_position(x, y): the skeleton after "self.x = x; self.y = y"
set_position(sk, x, y) == [sk EXCEPT !.x = x, !.y = y]

\* Skeleton.select_bone() going on after the first chain that selects
select_bone_chains_all(cs, i, mx, my) ==
    [j \in 1..Len(cs) |->
        IF j >= i /\ cs[j].parent_skeleton THEN select_bone(cs[j], mx, my)
        ELSE cs[j]]

\* Skeleton.select_bone(mx, my), from chain i on: the chains after the call
RECURSIVE select_bone_chains(_, _, _, _)
select_bone_chains(cs, i, mx, my) ==
    IF i > Len(cs) THEN cs
    ELSE IF cs[i].parent_skeleton /\ select_bone_ret(cs[i], mx, my)
    THEN [cs EXCEPT ![i] = select_bone(cs[i], mx, my)]
    ELSE select_bone_chains(cs, i + 1, mx, my)

\* Skeleton.select_bone(mx, my): the value returned
select_bone_chains_ret(cs, mx, my) ==
    \E i \in 1..Len(cs) : cs[i].parent_skeleton /\ select_bone_ret(cs[i], mx, my)

\* Skeleton.select_bone(mx, my) computes in integers: every chain it tries
\* does
ExactSelectChains(cs, mx, my) ==
    \A i \in 1..Len(cs) :
        (/\ cs[i].parent_skeleton
         /\ \A j \in 1..(i - 1) :
               cs[j].parent_skeleton =>
                   (ExactSelect(cs[j], mx, my) /\ ~select_bone_ret(cs[j], mx, my)))
        => ExactSelect(cs[i], mx, my)

\* "for chain in self.chains: chain.update_world_positions()"; the chains
\* of the skeleton are those that have it as parent
update_chains(cs, sk) == [i \in 1..Len(cs) |-> update_world_positions(cs[i], sk)]

-----------------------------------------------------------------------------
(* Inputs. *)

Coords == -MaxCoord..MaxCoord
Points == Coords \X Coords
HitPoints == (-MaxHit..MaxHit) \X (-MaxHit..MaxHit)

\* angles whose cosine and sine are rational with denominator 1 or 5
Angles ==
    {<<1, 0>>, <<0, 1>>, <<-1, 0>>, <<0, -1>>,
     <<3, 4>>, <<4, 3>>, <<-3, 4>>, <<-4, 3>>,
     <<3, -4>>, <<4, -3>>, <<-3, -4>>, <<-4, -3>>}

\* authored bone lengths
BoneLengths == {0, 5, 10}

\* pivots a Bone is built at
BonePivots == {<<0, 0>>, <<3, -1>>}

\* arguments of set_anchor, in units of 1/AnchorDen: -1.0, 0.0, 0.5, 1.0, 2.0
AnchorArgs == {-AnchorDen, 0, 1, AnchorDen, 2 * AnchorDen}

\* what pygame.image.load can return: pygame.error, a wide or a tall surface
Images == {None, <<10, 4>>, <<10, 20>>}

SpritePaths ==
    {<<"b", "o", "n", "e", ".", "p", "n", "g">>,
     <<"a", "_", "l", ".", "p", "n", "g">>,
     <<"a", "_", "L", "E", "F", "T", ".", "P", "N", "G">>,
     <<"a", "_", "r", ".", "p", "n", "g">>,
     <<"a", "_", "r", "i", "g", "h", "t", ".", "p", "n", "g">>,
     <<"a", "_", "u", ".", "p", "n", "g">>,
     <<"a", "_", "u", "p", ".", "p", "n", "g">>,
     <<"a", "_", "d", ".", "p", "n", "g">>,
     <<"a", "_", "d", "o", "w", "n", ".", "p", "n", "g">>,
     <<"a", "_", "l", ".", "j", "p", "g">>}

\* the record of a call.  For skeleton.move, pre_roots and pre_skeleton are
\* the root pivots of the chains and the position of the skeleton before the
\* call, undo tells that the call before it was skeleton.move with the
\* opposite displacement, and undo_roots and undo_skeleton are then the root
\* pivots and the position of the skeleton before that call.  For the
\* construction of a chain, args are the arguments of the call; for
\* set_anchor_from_filename, args is the file name; for update, args are the
\* arguments the call reads
Call(op, ci, bi, a, b, ret, err) ==
    [op |-> op, ci |-> ci, bi |-> bi, a |-> a, b |-> b, ret |-> ret,
     err |-> err, args |-> <<>>, pre_roots |-> <<>>, pre_skeleton |-> <<>>,
     undo |-> FALSE, undo_roots |-> <<>>, undo_skeleton |-> <<>>]

NoCall == Call("init", 0, 0, 0, 0, FALSE, "none")

\* the Skeleton before any chain is added
Skeleton0 == [x |-> 0, y |-> 0]

\* the Bone of the specifications of the chains, which do not use it
Bone0 == Bone(0, 0, 0, ZeroAngle)

-----------------------------------------------------------------------------
(* Chains and the skeleton: inputs and operations. *)

\* ik targets have coordinates in -MaxTarget..MaxTarget, or lie on an axis
\* with a coordinate in -MaxFar..MaxFar
MaxTarget == 6
MaxFar == 22
\* the skeleton stays within -MaxSkel..MaxSkel in x and y
MaxSkel == 1
\* the skeleton moves by at most MaxMove in x and y in one call
MaxMove == 1

IkTargets ==
    ((-MaxTarget..MaxTarget) \X (-MaxTarget..MaxTarget))
    \cup {<<k, 0>> : k \in -MaxFar..MaxFar}
    \cup {<<0, k>> : k \in -MaxFar..MaxFar}

LengthLists == {<<5>>, <<5, 5>>, <<10, 5, 5>>}

\* the arguments of a Chain laid out from its base
PlainArgs ==
    {[x |-> 0, y |-> 0, lengths |-> lengths, is_ik |-> is_ik,
      positions |-> NoList, anchors |-> NoList, sprite_paths |-> NoList] :
        lengths \in LengthLists, is_ik \in BOOLEAN}

\* the arguments of a Chain with explicit positions, anchors and sprite paths
PlacedArgs ==
    {[x |-> 5, y |-> 0, lengths |-> <<5, 5>>, is_ik |-> is_ik,
      positions |-> List(<<<<3, 0>>, <<9, 2>>>>),
      anchors |-> List(<<<<-AnchorDen, 2 * AnchorDen>>, <<1, 1>>>>),
      sprite_paths |-> List(<<<<"a", "_", "l", ".", "p", "n", "g">>>>)] :
        is_ik \in BOOLEAN}

ChainArgs == PlainArgs \cup PlacedArgs

\* what loading the sprites of a chain gives
ChainImages == {None, <<10, 4>>}

Moves == {m \in (-MaxMove..MaxMove) \X (-MaxMove..MaxMove) : m # <<0, 0>>}

\* the root pivots of the chains
roots(cs) == [i \in 1..Len(cs) |-> <<cs[i].bones[1].x, cs[i].bones[1].y>>]

\* Chain(x, y, lengths, is_ik, positions, anchors, sprite_paths), a chain
\* built on its own
New_chain(a, image) ==
    /\ chains' = IF Chain_err(a.lengths) = "none"
                 THEN Append(chains,
                             Chain(a.x, a.y, a.lengths, a.is_ik, a.positions,
                                   a.anchors, a.sprite_paths, FALSE,
                                   skeleton, image))
                 ELSE chains
    /\ last' = [Call("Chain", Len(chains) + 1, 0, 0, 0, FALSE,
                     Chain_err(a.lengths)) EXCEPT !.args = a]
    /\ UNCHANGED <<bone, skeleton>>

\* skeleton.add_chain(x, y, lengths, is_ik, positions, anchors, sprite_paths)
Skeleton_add_chain(a, image) ==
    /\ chains' = IF Chain_err(a.lengths) = "none"
                 THEN Append(chains,
                             Chain(a.x, a.y, a.lengths, a.is_ik, a.positions,
                                   a.anchors, a.sprite_paths, TRUE,
                                   skeleton, image))
                 ELSE chains
    /\ last' = [Call("add_chain", Len(chains) + 1, 0, 0, 0, FALSE,
                     Chain_err(a.lengths)) EXCEPT !.args = a]
    /\ UNCHANGED <<bone, skeleton>>

\* chains[ci].fk()
Chain_fk(ci) ==
    /\ ExactFk(chains[ci].bones)
    /\ chains' = [chains EXCEPT ![ci].bones = fk(@)]
    /\ last' = Call("fk", ci, 0, 0, 0, FALSE, "none")
    /\ UNCHANGED <<bone, skeleton>>

\* chains[ci].ik(tx, ty)
Chain_ik(ci, tx, ty) ==
    /\ ExactIk(chains[ci].bones, tx, ty)
    /\ chains' = [chains EXCEPT ![ci].bones = ik(@, tx, ty)]
    /\ last' = Call("ik", ci, 0, tx, ty, FALSE, ik_err(chains[ci].bones, tx, ty))
    /\ UNCHANGED <<bone, skeleton>>

\* chains[ci].update_world_positions()
Chain_update_world_positions(ci) ==
    /\ ExactWorld(chains[ci], skeleton)
    /\ chains' = [chains EXCEPT ![ci] = update_world_positions(@, skeleton)]
    /\ last' = Call("update_world_positions", ci, 0, 0, 0, FALSE, "none")
    /\ UNCHANGED <<bone, skeleton>>

\* skeleton.move(dx, dy)
Skeleton_move(dx, dy) ==
    /\ Abs(skeleton.x + dx) <= MaxSkel
    /\ Abs(skeleton.y + dy) <= MaxSkel
    /\ \A i \in 1..Len(chains) : ExactWorld(chains[i], move(skeleton, dx, dy))
    /\ skeleton' = move(skeleton, dx, dy)
    /\ chains' = update_chains(chains, move(skeleton, dx, dy))
    /\ LET undo == last.op = "move" /\ last.a = -dx /\ last.b = -dy
       IN  last' = [Call("move", 0, 0, dx, dy, FALSE, "none")
                       EXCEPT !.pre_roots = roots(chains),
                              !.pre_skeleton = <<skeleton.x, skeleton.y>>,
                              !.undo = undo,
                              !.undo_roots = IF undo THEN last.pre_roots ELSE <<>>,
                              !.undo_skeleton =
                                  IF undo THEN last.pre_skeleton ELSE <<>>]
    /\ UNCHANGED bone

\* skeleton.set_position(x, y)
Skeleton_set_position(x, y) ==
    /\ \A i \in 1..Len(chains) :
          ExactWorld(chains[i], set_position(skeleton, x, y))
    /\ skeleton' = set_position(skeleton, x, y)
    /\ chains' = update_chains(chains, set_position(skeleton, x, y))
    /\ last' = Call("set_position", 0, 0, x, y, FALSE, "none")
    /\ UNCHANGED bone

\* Skeleton(name, x, y, chains): chains lists the Chain objects built so
\* far, followed by the dictionaries cfgs; last.ci is the number of the
\* Chain objects
Skeleton_new(x, y, cfgs, image) ==
    LET sk == [x |-> x, y |-> y]
        cs == Skeleton_chains(x, y, chains, cfgs, image)
    IN  /\ skeleton = None
        /\ \A i \in 1..Len(cs) : ExactWorld(cs[i], sk)
        /\ skeleton' = sk
        /\ chains' = update_chains(cs, sk)
        /\ last' = Call("Skeleton", Len(chains), 0, x, y, FALSE, "none")
        /\ UNCHANGED bone

-----------------------------------------------------------------------------
(* A Bone on its own: follow. *)

InitBone ==
    /\ bone \in {Bone(p[1], p[2], length, angle) :
                    p \in BonePivots, length \in BoneLengths, angle \in Angles}
    /\ skeleton = Skeleton0
    /\ chains = <<>>
    /\ last = NoCall

\* bone.follow(tx, ty)
Bone_follow(tx, ty) ==
    /\ ExactFollow(bone, tx, ty)
    /\ bone' = follow(bone, tx, ty)
    /\ last' = Call("follow", 0, 0, tx, ty, FALSE, follow_err(bone, tx, ty))
    /\ UNCHANGED <<skeleton, chains>>

NextBone == \E t \in Points : Bone_follow(t[1], t[2])

SpecBone == InitBone /\ [][NextBone]_vars

-----------------------------------------------------------------------------
(* A Bone on its own: anchor and sprite. *)

InitAnchor ==
    /\ bone \in {Bone(0, 0, length, ZeroAngle) : length \in BoneLengths}
    /\ skeleton = Skeleton0
    /\ chains = <<>>
    /\ last = NoCall

\* bone.set_anchor(anchor_x, anchor_y)
Bone_set_anchor(anchor_x, anchor_y) ==
    /\ bone' = set_anchor(bone, anchor_x, anchor_y)
    /\ last' = Call("set_anchor", 0, 0, anchor_x, anchor_y, FALSE, "none")
    /\ UNCHANGED <<skeleton, chains>>

\* bone.load_sprite(sprite_path, auto_anchor)
Bone_load_sprite(sprite_path, auto_anchor, image) ==
    /\ bone' = load_sprite(bone, sprite_path, auto_anchor, image)
    /\ last' = Call("load_sprite", 0, 0, 0, 0, FALSE, "none")
    /\ UNCHANGED <<skeleton, chains>>

\* bone.set_anchor_from_filename(filename)
Bone_set_anchor_from_filename(filename) ==
    /\ bone' = set_anchor_from_filename(bone, filename)
    /\ last' = [Call("set_anchor_from_filename", 0, 0, 0, 0, FALSE, "none")
                    EXCEPT !.args = filename]
    /\ UNCHANGED <<skeleton, chains>>

\* bone.update_visual_position()
Bone_update_visual_position ==
    /\ bone' = update_visual_position(bone)
    /\ last' = Call("update_visual_position", 0, 0, 0, 0, FALSE, "none")
    /\ UNCHANGED <<skeleton, chains>>

NextAnchor ==
    \/ \E ax \in AnchorArgs, ay \in AnchorArgs : Bone_set_anchor(ax, ay)
    \/ \E path \in SpritePaths, auto \in BOOLEAN, image \in Images :
          Bone_load_sprite(path, auto, image)
    \/ \E path \in SpritePaths : Bone_set_anchor_from_filename(path)
    \/ Bone_update_visual_position

SpecAnchor == InitAnchor /\ [][NextAnchor]_vars

-----------------------------------------------------------------------------
(* A Bone on its own: the hit test. *)

\* the bone and the point (last.a, last.b) to test are drawn at the start
InitHit ==
    /\ bone \in {Bone(p[1], p[2], length, angle) :
                    p \in BonePivots, length \in BoneLengths, angle \in Angles}
    /\ skeleton = Skeleton0
    /\ chains = <<>>
    /\ last \in {Call("point", 0, 0, p[1], p[2], FALSE, "none") : p \in HitPoints}

\* bone.contains(px, py)
Bone_contains(px, py) ==
    /\ last' = Call("contains", 0, 0, px, py, contains(bone, px, py),
                    contains_err(bone, px, py))
    /\ UNCHANGED <<bone, skeleton, chains>>

NextHit == Bone_contains(last.a, last.b)

SpecHit == InitHit /\ [][NextHit]_vars

-----------------------------------------------------------------------------
(* One chain: construction, fk and ik. *)

InitChain ==
    /\ bone = Bone0
    /\ skeleton = Skeleton0
    /\ chains = <<>>
    /\ last = NoCall

NextChain ==
    \/ \E a \in ChainArgs, image \in ChainImages :
          Len(chains) = 0 /\ New_chain(a, image)
    \/ \E ci \in 1..Len(chains) : Chain_fk(ci)
    \/ \E ci \in 1..Len(chains), t \in IkTargets : Chain_ik(ci, t[1], t[2])

SpecChain == InitChain /\ [][NextChain]_vars

-----------------------------------------------------------------------------
(* The skeleton and the chains it owns. *)

\* the arguments of the first and of the second chain added to the
\* skeleton, each with what loading its sprites gives
SkeletonArgs ==
    <<ChainArgs \X ChainImages,
      {a \in PlainArgs : a.lengths = <<5, 5>>} \X {None}>>

Init ==
    /\ bone = Bone0
    /\ skeleton = Skeleton0
    /\ chains = <<>>
    /\ last = NoCall

Next ==
    \/ /\ Len(chains) < Len(SkeletonArgs)
       /\ \E a \in SkeletonArgs[Len(chains) + 1] : Skeleton_add_chain(a[1], a[2])
    \/ \E ci \in 1..Len(chains) : Chain_update_world_positions(ci)
    \/ \E m \in Moves : Skeleton_move(m[1], m[2])
    \/ \E x \in -MaxSkel..MaxSkel, y \in -MaxSkel..MaxSkel :
          Skeleton_set_position(x, y)

Spec == Init /\ [][Next]_vars

-----------------------------------------------------------------------------
(* One chain driven as by unified_demo: modes, selection and update. *)

\* a keyboard rotation keeps the turn of a bone within -MaxTurn..MaxTurn
MaxTurn == 1
\* update is called at the times 0, pi/2, ..., MaxTime * pi/2
MaxTime == 1

\* the arrow keys update() reads
Keys == {"LEFT", "RIGHT", "UP", "DOWN"}
KeySets == SUBSET Keys
Times == 0..MaxTime

\* positions of the mouse pointer: on the bones, at 14 and 15 from them,
\* beyond the first bones and far from all
MousePoints ==
    {<<0, 0>>, <<10, 0>>, <<3, 4>>, <<0, 5>>, <<0, 14>>, <<0, 15>>,
     <<22, 0>>, <<26, 0>>, <<32, 0>>, <<35, 0>>}

\* positions of the mouse pointer in update
UpdateMouse == {<<3, 4>>, <<22, 0>>}

\* the chains of this specification are laid out from their base, without
\* sprites
UpdateArgs == PlainArgs

\* the arguments (time, mx, my, keys) of update: each mode reads one of
\* time, (mx, my) and keys, the others are fixed
UpdateInputs ==
    {<<time, <<0, 0>>, {}>> : time \in Times}
    \cup {<<0, m, {}>> : m \in UpdateMouse}
    \cup {<<0, <<0, 0>>, keys>> : keys \in KeySets}

\* "chain.mode = (chain.mode + 1) % 4" of unified_demo
Chain_cycle_mode(ci) ==
    /\ chains' = [chains EXCEPT ![ci].mode = (@ + 1) % 4]
    /\ last' = Call("mode", ci, 0, 0, 0, FALSE, "none")
    /\ UNCHANGED <<bone, skeleton>>

\* chains[ci].select_bone(mx, my)
Chain_select_bone(ci, mx, my) ==
    /\ ExactSelect(chains[ci], mx, my)
    /\ chains' = [chains EXCEPT ![ci] = select_bone(@, mx, my)]
    /\ last' = Call("select_bone", ci, 0, mx, my,
                    select_bone_ret(chains[ci], mx, my), "none")
    /\ UNCHANGED <<bone, skeleton>>

\* chains[ci].update(time, mx, my, keys)
Chain_update(ci, time, mx, my, keys) ==
    /\ ExactUpdate(chains[ci], skeleton, time, mx, my, keys)
    /\ LET c == update(chains[ci], skeleton, time, mx, my, keys)
       IN  /\ \A i \in 1..Len(c.bones) :
                  c.bones[i].turn # chains[ci].bones[i].turn =>
                      (chains[ci].mode = 3 => Abs(c.bones[i].turn) <= MaxTurn)
           /\ (c.is_ik /\ chains[ci].mode = 3) =>
                  (Abs(c.target[1]) <= MaxFar /\ Abs(c.target[2]) <= MaxFar)
           /\ chains' = [chains EXCEPT ![ci] = c]
    /\ last' = [Call("update", ci, 0, 0, 0, FALSE,
                     update_err(chains[ci], skeleton, time, mx, my, keys))
                    EXCEPT !.args = update_reads(chains[ci], time, mx, my, keys)]
    /\ UNCHANGED <<bone, skeleton>>

InitUpdate ==
    /\ bone = Bone0
    /\ skeleton = Skeleton0
    /\ chains = <<>>
    /\ last = NoCall

NextUpdate ==
    \/ \E a \in UpdateArgs : Len(chains) = 0 /\ New_chain(a, None)
    \/ \E ci \in 1..Len(chains) : Chain_cycle_mode(ci)
    \/ \E ci \in 1..Len(chains), m \in UpdateMouse :
          Chain_select_bone(ci, m[1], m[2])
    \/ \E ci \in 1..Len(chains), in \in UpdateInputs :
          Chain_update(ci, in[1], in[2][1], in[2][2], in[3])

SpecUpdate == InitUpdate /\ [][NextUpdate]_vars

-----------------------------------------------------------------------------
(* One chain: construction, ik and the selection of a bone. *)

\* the targets the chain is posed with
PoseTargets == {<<3, 4>>, <<0, 10>>, <<-8, 6>>, <<20, 0>>}

InitSelect ==
    /\ bone = Bone0
    /\ skeleton = Skeleton0
    /\ chains = <<>>
    /\ last = NoCall

NextSelect ==
    \/ \E a \in ChainArgs, image \in ChainImages :
          Len(chains) = 0 /\ New_chain(a, image)
    \/ \E ci \in 1..Len(chains), t \in PoseTargets : Chain_ik(ci, t[1], t[2])
    \/ \E ci \in 1..Len(chains), m \in MousePoints :
          Chain_select_bone(ci, m[1], m[2])

SpecSelect == InitSelect /\ [][NextSelect]_vars

-----------------------------------------------------------------------------
(* Construction: chains built on their own, then the skeleton that takes   *)
(* them, and chains added to it.                                           *)

\* the positions, anchors and sprite paths a chain is built with
PositionLists ==
    {NoList, List(<<>>), List(<<<<3, 0>>>>), List(<<<<3, 0>>, <<9, 2>>>>)}
AnchorLists == {NoList, List(<<<<-AnchorDen, 2 * AnchorDen>>, <<1, 1>>>>)}
SpritePathLists == {NoList, List(<<<<"a", "_", "l", ".", "p", "n", "g">>>>)}

NewArgs ==
    {[x |-> 5, y |-> 0, lengths |-> lengths, is_ik |-> is_ik,
      positions |-> positions, anchors |-> anchors,
      sprite_paths |-> sprite_paths] :
        lengths \in LengthLists, is_ik \in BOOLEAN,
        positions \in PositionLists, anchors \in AnchorLists,
        sprite_paths \in SpritePathLists}

\* the dictionaries a skeleton is built with: none, or one plain chain
NewConfigs == {<<>>} \cup {<<a>> : a \in {c \in PlainArgs : c.lengths = <<5, 5>>}}

\* no Skeleton has been built yet
InitNew ==
    /\ bone = Bone0
    /\ skeleton = None
    /\ chains = <<>>
    /\ last = NoCall

NextNew ==
    \/ \E a \in NewArgs, image \in ChainImages :
          skeleton = None /\ Len(chains) = 0 /\ New_chain(a, image)
    \/ \E x \in -MaxSkel..MaxSkel, y \in -MaxSkel..MaxSkel,
          cfgs \in NewConfigs, image \in ChainImages :
          Skeleton_new(x, y, cfgs, image)
    \/ \E a \in NewArgs, image \in ChainImages :
          skeleton # None /\ Len(chains) = 0 /\ Skeleton_add_chain(a, image)

SpecNew == InitNew /\ [][NextNew]_vars

-----------------------------------------------------------------------------
(* One chain, on its own or owned by the skeleton, under every operation:  *)
(* construction, mode cycling, update, selection, fk, ik and the moves of  *)
(* the skeleton.                                                           *)

\* the lists of lengths a chain is built from, the empty list included
DemoLengths == {<<>>, <<5, 5>>}

DemoArgs ==
    {[x |-> 0, y |-> 0, lengths |-> lengths, is_ik |-> is_ik,
      positions |-> NoList, anchors |-> NoList, sprite_paths |-> NoList] :
        lengths \in DemoLengths, is_ik \in BOOLEAN}

\* the arrow keys that are down in an update
DemoKeys == {{"LEFT"}, {"UP"}}

\* the positions of the mouse pointer, and the target of ik
DemoMouse == {<<3, 4>>, <<8, 4>>}
DemoTarget == <<8, 4>>

\* the arguments (time, mx, my, keys) of update
DemoInputs ==
    {<<time, <<0, 0>>, {}>> : time \in Times}
    \cup {<<0, m, {}>> : m \in DemoMouse}
    \cup {<<0, <<0, 0>>, keys>> : keys \in DemoKeys}

\* the skeleton moves along x, by MaxMove to the left or to the right, and
\* is put at the ends and in the middle of its range
DemoMoves == {<<-MaxMove, 0>>, <<MaxMove, 0>>}
DemoPlaces == {-MaxSkel, 0, MaxSkel}

InitDemo ==
    /\ bone = Bone0
    /\ skeleton = Skeleton0
    /\ chains = <<>>
    /\ last = NoCall

NextDemo ==
    \/ \E a \in DemoArgs : Len(chains) = 0 /\ New_chain(a, None)
    \/ \E a \in DemoArgs : Len(chains) = 0 /\ Skeleton_add_chain(a, None)
    \/ \E ci \in 1..Len(chains) : Chain_cycle_mode(ci)
    \/ \E ci \in 1..Len(chains), in \in DemoInputs :
          Chain_update(ci, in[1], in[2][1], in[2][2], in[3])
    \/ \E ci \in 1..Len(chains), m \in DemoMouse :
          Chain_select_bone(ci, m[1], m[2])
    \/ \E ci \in 1..Len(chains) : Chain_fk(ci)
    \/ \E ci \in 1..Len(chains) : Chain_ik(ci, DemoTarget[1], DemoTarget[2])
    \/ \E ci \in 1..Len(chains) : Chain_update_world_positions(ci)
    \/ \E m \in DemoMoves : Skeleton_move(m[1], m[2])
    \/ \E x \in DemoPlaces : Skeleton_set_position(x, 0)

SpecDemo == InitDemo /\ [][NextDemo]_vars

-----------------------------------------------------------------------------
(* The skeleton and the selection of a bone in its chains.                 *)

\* the chains of the skeleton: two bones of length 5 from (0, 0) or (10, 0)
PickArgs ==
    {[x |-> x, y |-> 0, lengths |-> <<5, 5>>, is_ik |-> is_ik,
      positions |-> NoList, anchors |-> NoList, sprite_paths |-> NoList] :
        x \in {0, 10}, is_ik \in BOOLEAN}

\* the number of chains of the skeleton
PickChains == 3

\* positions of the mouse pointer: on the chains, beyond their first bones
\* and far from all
PickMouse == {<<0, 0>>, <<-12, 0>>, <<22, 0>>, <<32, 0>>, <<40, 0>>}

\* skeleton.select_bone(mx, my)
Skeleton_select_bone(mx, my) ==
    /\ ExactSelectChains(chains, mx, my)
    /\ chains' = select_bone_chains(chains, 1, mx, my)
    /\ last' = Call("skeleton.select_bone", 0, 0, mx, my,
                    select_bone_chains_ret(chains, mx, my), "none")
    /\ UNCHANGED <<bone, skeleton>>

InitPick ==
    /\ bone = Bone0
    /\ skeleton = Skeleton0
    /\ chains = <<>>
    /\ last = NoCall

NextPick ==
    \/ \E a \in PickArgs : Len(chains) < PickChains /\ Skeleton_add_chain(a, None)
    \/ \E m \in PickMouse : Skeleton_select_bone(m[1], m[2])

SpecPick == InitPick /\ [][NextPick]_vars

-----------------------------------------------------------------------------
(* One chain laid out from its base or built with all its pivots on the    *)
(* base, and ik.                                                           *)

FoldLengths == {<<5, 5>>, <<5, 5, 5>>}

\* no positions, or the first two bones at (0, 0)
FoldPositions == {NoList, List(<<<<0, 0>>, <<0, 0>>>>)}

FoldArgs ==
    {[x |-> 0, y |-> 0, lengths |-> lengths, is_ik |-> TRUE,
      positions |-> positions, anchors |-> NoList, sprite_paths |-> NoList] :
        lengths \in FoldLengths, positions \in FoldPositions}

\* the targets of ik: on the axes, and two off them
FoldTargets ==
    {<<k, 0>> : k \in -MaxFar..MaxFar}
    \cup {<<0, k>> : k \in -MaxFar..MaxFar}
    \cup {<<8, 4>>, <<3, 4>>}

InitFold ==
    /\ bone = Bone0
    /\ skeleton = Skeleton0
    /\ chains = <<>>
    /\ last = NoCall

NextFold ==
    \/ \E a \in FoldArgs : Len(chains) = 0 /\ New_chain(a, None)
    \/ \E ci \in 1..Len(chains), t \in FoldTargets : Chain_ik(ci, t[1], t[2])

SpecFold == InitFold /\ [][NextFold]_vars

\* every bone of the model has an end position with integer coordinates
ExactState ==
    /\ ExactBone(bone)
    /\ \A ci \in 1..Len(chains) : \A i \in 1..Len(chains[ci].bones) :
          ExactBone(chains[ci].bones[i])

-----------------------------------------------------------------------------
(* Properties. *)

pivot(b) == <<b.x, b.y>>

\* the target of the last follow or ik call
LastTarget == <<last.a, last.b>>

\* every bone but the first starts where the bone before it ends
Connected(bones) ==
    \A i \in 1..(Len(bones) - 1) : pivot(bones[i + 1]) = end_pos(bones[i])

Dist2(p, q) == (p[1] - q[1]) * (p[1] - q[1]) + (p[2] - q[2]) * (p[2] - q[2])

\* C1: after fk() on a chain that is not an IK chain, every bone but the
\* first has its pivot at the end position of the bone before it, whatever
\* the angles of the bones are.
C1_FkConnects ==
    (last.op = "fk" /\ ~chains[last.ci].is_ik) =>
        Connected(chains[last.ci].bones)

C1_Witness ==
    /\ last.op = "fk"
    /\ ~chains[last.ci].is_ik
    /\ Len(chains[last.ci].bones) = 3
    /\ chains[last.ci].bones[1].angle # ZeroAngle
    /\ chains[last.ci].bones[2].angle # chains[last.ci].bones[1].angle
    /\ Connected(chains[last.ci].bones)

\* C2: follow(tx, ty) with a target that is not the pivot of the bone leaves
\* the end position of the bone on the target and its length unchanged, and
\* puts its pivot one bone length behind the target on the line from the old
\* pivot to the target.
C2_FollowReaches ==
    [][(last'.op = "follow" /\ <<last'.a, last'.b>> # pivot(bone)) =>
         LET t == <<last'.a, last'.b>>
             old == <<t[1] - bone.x, t[2] - bone.y>>
             new == <<t[1] - bone'.x, t[2] - bone'.y>>
         IN  /\ end_pos(bone') = t
             /\ bone'.length = bone.length
             /\ new[1] * new[1] + new[2] * new[2] = bone.length * bone.length
             /\ old[1] * new[2] - old[2] * new[1] = 0
             /\ old[1] * new[1] + old[2] * new[2] >= 0]_vars

C2_Witness ==
    /\ last.op = "follow"
    /\ bone.length > 0
    /\ bone.angle = <<-3, 4>>
    /\ end_pos(bone) = LastTarget
    /\ last.err = "none"

\* C3: follow(tx, ty) with the target on the pivot of the bone
\* leaves the pivot and the angle unchanged, whatever the angle was.
C3_AngleKept ==
    [][(last'.op = "follow" /\ <<last'.a, last'.b>> = pivot(bone)) =>
         (pivot(bone') = pivot(bone) /\ bone'.angle = bone.angle)]_vars

\* C4: ik(tx, ty) leaves the pivot of the first bone of the chain where it
\* was before the call.
C4_IkKeepsRoot ==
    [][last'.op = "ik" =>
         pivot(chains'[last'.ci].bones[1]) = pivot(chains[last'.ci].bones[1])]_vars

C4_Witness ==
    /\ last.op = "ik"
    /\ Len(chains[last.ci].bones) = 3
    /\ pivot(chains[last.ci].bones[1]) = <<0, 0>>
    /\ chains[last.ci].bones[1].angle # ZeroAngle
    /\ end_pos(chains[last.ci].bones[3]) = LastTarget

\* a chain of two bones laid out straight from its first pivot
Straight2(bones) ==
    /\ Len(bones) = 2
    /\ bones[2].angle = bones[1].angle
    /\ pivot(bones[2]) = end_pos(bones[1])

\* t lies on the line of the first bone at distance length from its pivot
OnLineAt(b, t, length) ==
    LET n == vec_length(b.angle)
        d == <<(t[1] - b.x) * n, (t[2] - b.y) * n>>
    IN  \/ d = <<length * b.angle[1], length * b.angle[2]>>
        \/ d = <<-length * b.angle[1], -length * b.angle[2]>>

\* C5: ik on a chain of two bones laid out straight, with the target on the
\* line of the chain at the sum of the two lengths from the first pivot,
\* leaves the end position of the last bone on the target.
C5_CollinearReach ==
    [][(/\ last'.op = "ik"
        /\ Straight2(chains[last'.ci].bones)
        /\ OnLineAt(chains[last'.ci].bones[1], <<last'.a, last'.b>>,
                    sum_lengths(chains[last'.ci].bones, 1))) =>
         end_pos(chains'[last'.ci].bones[2]) = <<last'.a, last'.b>>]_vars

C5_Witness ==
    /\ last.op = "ik"
    /\ Straight2(chains[last.ci].bones)
    /\ chains[last.ci].bones[1].angle = <<-1, 0>>
    /\ OnLineAt(chains[last.ci].bones[1], LastTarget,
                sum_lengths(chains[last.ci].bones, 1))
    /\ end_pos(chains[last.ci].bones[2]) = LastTarget

\* C6 as claimed: ik on a chain of one bone, with a target that is not the
\* pivot of the bone, leaves the end position of the bone on the target.
C6_SingleBoneReaches ==
    [][(/\ last'.op = "ik"
        /\ Len(chains[last'.ci].bones) = 1
        /\ <<last'.a, last'.b>> # pivot(chains[last'.ci].bones[1])) =>
         end_pos(chains'[last'.ci].bones[1]) = <<last'.a, last'.b>>]_vars

\* C6, amended: ik on a chain of one bone, with a target that is not the
\* pivot of the bone, leaves the pivot where it was and points the bone at
\* the target; the end position is on the target exactly when the target is
\* one bone length away from the pivot.
C6_SingleBonePoints ==
    [][(/\ last'.op = "ik"
        /\ Len(chains[last'.ci].bones) = 1
        /\ <<last'.a, last'.b>> # pivot(chains[last'.ci].bones[1])) =>
         LET b == chains[last'.ci].bones[1]
             b2 == chains'[last'.ci].bones[1]
             t == <<last'.a, last'.b>>
         IN  /\ pivot(b2) = pivot(b)
             /\ b2.length = b.length
             /\ b2.angle = atan2(t[2] - b.y, t[1] - b.x)
             /\ (end_pos(b2) = t) <=> (Dist2(t, pivot(b)) = b.length * b.length)]_vars

C6_Witness ==
    /\ last.op = "ik"
    /\ Len(chains[last.ci].bones) = 1
    /\ chains[last.ci].bones[1].angle # ZeroAngle
    /\ Dist2(LastTarget, pivot(chains[last.ci].bones[1])) = 100
    /\ end_pos(chains[last.ci].bones[1]) # LastTarget

\* the target is farther from the first pivot than the sum of the lengths
Far(bones, t) ==
    Dist2(t, pivot(bones[1])) > sum_lengths(bones, 1) * sum_lengths(bones, 1)

\* C7: ik with a target farther from the first pivot than the sum of the
\* bone lengths ends without an error and leaves the end position of the
\* last bone off the target.
C7_FarTarget ==
    [][(last'.op = "ik" /\ Far(chains[last'.ci].bones, <<last'.a, last'.b>>)) =>
         /\ last'.err = "none"
         /\ end_pos(chains'[last'.ci].bones[Len(chains'[last'.ci].bones)])
               # <<last'.a, last'.b>>]_vars

C7_Witness ==
    /\ last.op = "ik"
    /\ Len(chains[last.ci].bones) = 2
    /\ Far(chains[last.ci].bones, LastTarget)
    /\ last.err = "none"
    /\ Connected(chains[last.ci].bones)
    /\ end_pos(chains[last.ci].bones[2]) # LastTarget

AnchorInRange(b) ==
    /\ 0 <= b.anchor_x /\ b.anchor_x <= AnchorDen
    /\ 0 <= b.anchor_y /\ b.anchor_y <= AnchorDen

\* C8: in every state the anchor of every bone has both components between
\* 0 and 1 (AnchorDen units), and set_anchor(-1, 2), as called by the
\* construction of a chain, stores (0, 1).
C8_AnchorInRange ==
    /\ AnchorInRange(bone)
    /\ \A ci \in 1..Len(chains) : \A i \in 1..Len(chains[ci].bones) :
          AnchorInRange(chains[ci].bones[i])
    /\ \A ax \in AnchorArgs, ay \in AnchorArgs :
          LET b == set_anchor(bone, ax, ay)
          IN  /\ b.anchor_x = (IF ax < 0 THEN 0 ELSE IF ax > AnchorDen THEN AnchorDen ELSE ax)
              /\ b.anchor_y = (IF ay < 0 THEN 0 ELSE IF ay > AnchorDen THEN AnchorDen ELSE ay)

C8_Witness ==
    /\ last.op = "Chain"
    /\ Len(chains) = 1
    /\ chains[1].bones[1].sprite_original # None
    /\ chains[1].bones[1].anchor_x = 0
    /\ chains[1].bones[1].anchor_y = AnchorDen
    /\ chains[1].bones[2].anchor_x = 1

\* the square of the distance from (px, py) to the nearest point of the
\* segment from the pivot of b to its end position is less than HitRadius2
SegmentNear(b, px, py) ==
    LET e == end_pos(b)
        len2 == Dist2(e, pivot(b))
        dot == (px - b.x) * (e[1] - b.x) + (py - b.y) * (e[2] - b.y)
        cross == (px - b.x) * (e[2] - b.y) - (py - b.y) * (e[1] - b.x)
    IN  IF len2 = 0 \/ dot <= 0 THEN Dist2(<<px, py>>, pivot(b)) < HitRadius2
        ELSE IF dot >= len2 THEN Dist2(<<px, py>>, e) < HitRadius2
        ELSE cross * cross < HitRadius2 * len2

\* C9: contains(px, py) is true exactly when the point is less than 15 away
\* from the nearest point of the segment from the pivot to the end position;
\* it ends without an error, also for a bone of length 0.
C9_HitTest ==
    last.op = "contains" =>
        /\ last.ret <=> SegmentNear(bone, last.a, last.b)
        /\ last.err = "none"

\* a point at distance 15 from the inside of the segment is not hit
C9_Witness ==
    /\ last.op = "contains"
    /\ ~last.ret
    /\ bone.length = 10
    /\ bone.angle = <<3, 4>>
    /\ LET e == end_pos(bone)
           dot == (last.a - bone.x) * (e[1] - bone.x)
                      + (last.b - bone.y) * (e[2] - bone.y)
           cross == (last.a - bone.x) * (e[2] - bone.y)
                      - (last.b - bone.y) * (e[1] - bone.x)
       IN  /\ 0 < dot /\ dot < Dist2(e, pivot(bone))
           /\ cross * cross = HitRadius2 * Dist2(e, pivot(bone))

\* C10: skeleton.move(dx, dy) followed by skeleton.move(-dx, -dy)
\* leaves the first pivot of every chain that is not an IK chain where it was
\* before the first call.
C10_RootRestored ==
    \A ci \in 1..Len(chains) :
        (last.op = "move" /\ last.undo /\ ~chains[ci].is_ik) =>
            pivot(chains[ci].bones[1]) = last.undo_roots[ci]

\* C11: when loading the sprite fails, load_sprite ends without an error
\* and leaves the bone with its original length, without a sprite and with
\* the anchor (0.0, 0.5).
C11_LoadFailure ==
    (last.op = "load_sprite" /\ bone.sprite_original = None) =>
        /\ last.err = "none"
        /\ bone.length = bone.original_length
        /\ bone.sprite = None
        /\ bone.anchor_x = 0
        /\ bone.anchor_y = AnchorDen \div 2

\* exactly the bone at index c.selected (counted from 0) is selected
OneSelected(c) ==
    /\ 0 <= c.selected /\ c.selected < Len(c.bones)
    /\ \A i \in 1..Len(c.bones) : c.bones[i].selected <=> (i = c.selected + 1)

\* C12: in every state of a chain that is not an IK chain, after its
\* construction and after any calls of select_bone and update in any mode
\* with any keys, exactly one bone is selected, the bone at index selected,
\* and 0 <= selected < number of bones.
C12_OneSelected ==
    \A ci \in 1..Len(chains) : ~chains[ci].is_ik => OneSelected(chains[ci])

C12_Witness ==
    /\ last.op = "update"
    /\ ~chains[1].is_ik
    /\ chains[1].mode = 3
    /\ Len(chains[1].bones) = 3
    /\ chains[1].selected = 2
    /\ chains[1].bones[3].selected
    /\ chains[1].bones[3].turn = 1

\* the indices of the bones of c that the point (px, py) hits
Hits(c, px, py) == {i \in 1..Len(c.bones) : SegmentNear(c.bones[i], px, py)}

\* C13: on a chain that is not an IK chain, select_bone(mx, my) returns
\* true exactly when the point hits some bone; it then selects the hit bone
\* of lowest index and deselects all others, and otherwise leaves the chain
\* as it was.
C13_SelectFirstHit ==
    [][(last'.op = "select_bone" /\ ~chains[last'.ci].is_ik) =>
         LET c == chains[last'.ci]
             c2 == chains'[last'.ci]
             hits == Hits(c, last'.a, last'.b)
         IN  /\ last'.ret <=> (hits # {})
             /\ hits = {} => c2 = c
             /\ hits # {} =>
                   \E i \in hits :
                      /\ \A j \in hits : i <= j
                      /\ c2.selected = i - 1
                      /\ \A j \in 1..Len(c2.bones) :
                            c2.bones[j].selected <=> (j = i)]_vars

\* the point hits the second and the third bone but not the first: the
\* second is selected
C13_Witness ==
    /\ last.op = "select_bone"
    /\ ~chains[last.ci].is_ik
    /\ last.ret
    /\ Hits(chains[last.ci], last.a, last.b) = {2, 3}
    /\ chains[last.ci].selected = 1
    /\ chains[last.ci].bones[2].selected
    /\ ~chains[last.ci].bones[1].selected

\* C14: on an IK chain, select_bone(mx, my) returns false and leaves the
\* index selected and the selected flag of every bone as they were, also for
\* a point that hits a bone.
C14_IkNoSelect ==
    [][(last'.op = "select_bone" /\ chains[last'.ci].is_ik) =>
         /\ ~last'.ret
         /\ chains'[last'.ci].selected = chains[last'.ci].selected
         /\ \A j \in 1..Len(chains[last'.ci].bones) :
               chains'[last'.ci].bones[j].selected
                   = chains[last'.ci].bones[j].selected]_vars

C14_Witness ==
    /\ last.op = "select_bone"
    /\ chains[last.ci].is_ik
    /\ ~last.ret
    /\ Hits(chains[last.ci], last.a, last.b) = {2, 3}
    /\ chains[last.ci].selected = 0
    /\ chains[last.ci].bones[1].selected

\* C15: update(time, mx, my, keys) on a chain in the Static mode (mode 1)
\* changes nothing: bones, target, selected and mode of the chain are as they
\* were, for IK and FK chains and for all inputs.
C15_StaticNoChange ==
    [][(last'.op = "update" /\ chains[last'.ci].mode = 1) =>
         chains' = chains]_vars

C15_Witness ==
    /\ last.op = "update"
    /\ chains[last.ci].mode = 1
    /\ chains[last.ci].is_ik
    /\ chains[last.ci].target = <<22, 0>>
    /\ last.err = "none"

\* C16: after skeleton.move(dx, dy) and after skeleton.set_position(x, y),
\* the first pivot of every chain of the skeleton, IK or not, is at the
\* position of the skeleton plus the local offset of the chain, and every
\* chain that is not an IK chain is connected.
C16_RootsFollowSkeleton ==
    last.op \in {"move", "set_position"} =>
        \A ci \in 1..Len(chains) :
            /\ pivot(chains[ci].bones[1])
                   = <<skeleton.x + chains[ci].local_x,
                       skeleton.y + chains[ci].local_y>>
            /\ ~chains[ci].is_ik => Connected(chains[ci].bones)

C16_Witness ==
    /\ last.op = "set_position"
    /\ skeleton = [x |-> 1, y |-> 0]
    /\ Len(chains) = 2
    /\ chains[1].is_ik
    /\ Len(chains[1].bones) = 3
    /\ pivot(chains[1].bones[1]) = <<1, 0>>
    /\ ~chains[2].is_ik
    /\ pivot(chains[2].bones[2]) = <<6, 0>>

\* C17: skeleton.move and skeleton.set_position leave the target of every IK
\* chain of the skeleton as it was: the target does not move with the
\* skeleton.
C17_TargetStays ==
    [][last'.op \in {"move", "set_position"} =>
         \A ci \in 1..Len(chains) :
             chains[ci].is_ik =>
                 /\ chains'[ci].target = chains[ci].target
                 /\ chains'[ci].target # None]_vars

C17_Witness ==
    /\ last.op = "move"
    /\ skeleton = [x |-> 1, y |-> 0]
    /\ Len(chains) > 0
    /\ chains[1].is_ik
    /\ chains[1].local_x = 0
    /\ chains[1].target = <<10, 0>>
    /\ pivot(chains[1].bones[1]) = <<1, 0>>

\* the visual position of b is its pivot shifted by -anchor * sprite size,
\* and its pivot when it has no sprite
VisualInSync(b) ==
    IF b.sprite_original # None
    THEN /\ AnchorDen * b.visual_x = AnchorDen * b.x - b.anchor_x * b.sprite_original[1]
         /\ AnchorDen * b.visual_y = AnchorDen * b.y - b.anchor_y * b.sprite_original[2]
    ELSE b.visual_x = b.x /\ b.visual_y = b.y

\* C18: in every state reached by the construction of a chain, fk and ik,
\* every bone of the chain, the first included, has its visual position
\* equal to its pivot minus anchor times sprite size (to its pivot when it
\* has no sprite).
C18_VisualInSync ==
    \A ci \in 1..Len(chains) : \A i \in 1..Len(chains[ci].bones) :
        VisualInSync(chains[ci].bones[i])

\* the length of a bone: the width of its sprite, or the length it was
\* created with when it has no sprite
BoneLength(b) ==
    IF b.sprite_original # None THEN b.sprite_original[1] ELSE b.original_length

RECURSIVE SumOver(_, _)
SumOver(lengths, i) ==
    IF i > Len(lengths) THEN 0 ELSE lengths[i] + SumOver(lengths, i + 1)

\* the chain was given its skeleton when it was built (add_chain, or a
\* dictionary of Skeleton(...)), not after
BuiltOwned(ci) ==
    \/ last.op = "add_chain"
    \/ last.op = "Skeleton" /\ ci > last.ci

Stem(s) ==
    LET dots == {i \in 1..Len(s) : s[i] = "."}
    IN  IF dots = {} THEN s
        ELSE SubSeq(s, 1, (CHOOSE i \in dots : \A j \in dots : j <= i) - 1)

\* the anchor set_anchor_from_filename falls back to: from the dimensions of
\* the sprite, (0.0, 0.5) without a sprite
DimensionAnchor(b) ==
    IF b.sprite_original = None THEN <<0, AnchorDen \div 2>>
    ELSE IF b.sprite_original[1] >= b.sprite_original[2]
    THEN <<0, AnchorDen \div 2>>
    ELSE <<AnchorDen \div 2, 0>>

\* the anchor for a name, given the suffixes that stand for left, right, up
\* and down
SuffixAnchor(b, name, l, r, u, d) ==
    IF endswith_any(name, l) THEN <<AnchorDen, AnchorDen \div 2>>
    ELSE IF endswith_any(name, r) THEN <<0, AnchorDen \div 2>>
    ELSE IF endswith_any(name, u) THEN <<AnchorDen \div 2, AnchorDen>>
    ELSE IF endswith_any(name, d) THEN <<AnchorDen \div 2, 0>>
    ELSE DimensionAnchor(b)

\* C21 as claimed: set_anchor_from_filename gives the anchor (1.0, 0.5) for
\* a name ending in _l or _left, (0.0, 0.5) for _r or _right, (0.5, 1.0) for
\* _u or _up, (0.5, 0.0) for _d or _down, whatever follows the last "." of
\* the name, and for every other name the anchor of the dimensions.
C21_StemSuffix ==
    last.op = "set_anchor_from_filename" =>
        <<bone.anchor_x, bone.anchor_y>> =
            SuffixAnchor(bone, lower(Stem(last.args)),
                {<<"_", "l">>, <<"_", "l", "e", "f", "t">>},
                {<<"_", "r">>, <<"_", "r", "i", "g", "h", "t">>},
                {<<"_", "u">>, <<"_", "u", "p">>},
                {<<"_", "d">>, <<"_", "d", "o", "w", "n">>})

\* C21, amended: set_anchor_from_filename gives the anchor (1.0, 0.5) for a
\* name that ends, letter case aside, in _l.png or _left.png, (0.0, 0.5) for
\* _r.png or _right.png, (0.5, 1.0) for _u.png or _up.png, (0.5, 0.0) for
\* _d.png or _down.png; for every other name, a name with another extension
\* included, (0.0, 0.5) when the sprite is at least as wide as high or there
\* is no sprite, and (0.5, 0.0) when it is higher than wide.  The anchor the
\* bone had before does not count.
C21_PngSuffix ==
    last.op = "set_anchor_from_filename" =>
        <<bone.anchor_x, bone.anchor_y>> =
            SuffixAnchor(bone, lower(last.args),
                {<<"_", "l", ".", "p", "n", "g">>,
                 <<"_", "l", "e", "f", "t", ".", "p", "n", "g">>},
                {<<"_", "r", ".", "p", "n", "g">>,
                 <<"_", "r", "i", "g", "h", "t", ".", "p", "n", "g">>},
                {<<"_", "u", ".", "p", "n", "g">>,
                 <<"_", "u", "p", ".", "p", "n", "g">>},
                {<<"_", "d", ".", "p", "n", "g">>,
                 <<"_", "d", "o", "w", "n", ".", "p", "n", "g">>})

\* an upper-case name on a sprite higher than wide: the suffix decides
C21_Witness ==
    /\ last.op = "set_anchor_from_filename"
    /\ last.args = <<"a", "_", "L", "E", "F", "T", ".", "P", "N", "G">>
    /\ bone.sprite_original = <<10, 20>>
    /\ bone.anchor_x = AnchorDen
    /\ bone.anchor_y = AnchorDen \div 2

KeySteps(keys) ==
    <<(IF "RIGHT" \in keys THEN 1 ELSE 0) - (IF "LEFT" \in keys THEN 1 ELSE 0),
      (IF "DOWN" \in keys THEN 1 ELSE 0) - (IF "UP" \in keys THEN 1 ELSE 0)>>

\* C23: in the Keyboard mode on an IK chain, one update moves the target by
\* 3 for every arrow key that is down (LEFT -3 and RIGHT +3 in x, UP -3 and
\* DOWN +3 in y, opposite keys cancelling, no key leaving the target as it
\* was) and then runs ik on the moved target: the first pivot stays and the
\* bones are those ik gives from the bones before the update.
C23_KeyboardIk ==
    [][(/\ last'.op = "update"
        /\ chains[last'.ci].mode = 3
        /\ chains[last'.ci].is_ik) =>
         LET c == chains[last'.ci]
             c2 == chains'[last'.ci]
             d == KeySteps(last'.args.keys)
         IN  /\ c2.target = <<c.target[1] + 3 * d[1], c.target[2] + 3 * d[2]>>
             /\ pivot(c2.bones[1]) = pivot(c.bones[1])
             /\ c2.bones = ik(c.bones, c2.target[1], c2.target[2])
             /\ last'.err = "none"]_vars

\* LEFT and DOWN together have moved the target from (-1, 0) to (-4, 3),
\* and the bone of length 5 reaches it
C23_Witness ==
    /\ last.op = "update"
    /\ last.args.keys = {"LEFT", "DOWN"}
    /\ chains[1].is_ik
    /\ chains[1].mode = 3
    /\ Len(chains[1].bones) = 1
    /\ chains[1].target = <<-4, 3>>
    /\ end_pos(chains[1].bones[1]) = <<-4, 3>>

\* C24: the mode of a chain is always one of 0 (Animated), 1 (Static),
\* 2 (Mouse) and 3 (Keyboard); no construction after the first, update, fk,
\* ik, select_bone, update_world_positions or move of the skeleton changes
\* the mode or is_ik of a chain; the mode changes only by the cycle step
\* mode := (mode + 1) mod 4, which leaves the bones, the selection, the
\* target and is_ik of the chain as they were.
C24_ModeCycle ==
    /\ [](\A ci \in 1..Len(chains) : chains[ci].mode \in 0..3)
    /\ [][\A ci \in 1..Len(chains) :
             /\ Len(chains') = Len(chains)
             /\ chains'[ci].is_ik = chains[ci].is_ik
             /\ (last'.op # "mode" \/ last'.ci # ci) =>
                    chains'[ci].mode = chains[ci].mode
             /\ (last'.op = "mode" /\ last'.ci = ci) =>
                    /\ chains'[ci].mode = (chains[ci].mode + 1) % 4
                    /\ chains'[ci].bones = chains[ci].bones
                    /\ chains'[ci].selected = chains[ci].selected
                    /\ chains'[ci].target = chains[ci].target]_vars

\* the mode of an IK chain posed by the mouse has cycled from Keyboard back
\* to Animated, with the pose and the target kept
C24_Witness ==
    /\ last.op = "mode"
    /\ Len(chains) = 1
    /\ chains[1].is_ik
    /\ chains[1].mode = 0
    /\ chains[1].target = <<8, 4>>
    /\ chains[1].bones[2].angle = <<3, 4>>

\* C25: after the construction of a chain, no step changes the number of
\* its bones or the length of any of them: fk, ik, update in every mode,
\* select_bone, update_world_positions, the mode cycle and the move and
\* set_position of the skeleton all keep them.
C25_BonesFixed ==
    [][\A ci \in 1..Len(chains) :
          /\ Len(chains') >= Len(chains)
          /\ Len(chains'[ci].bones) = Len(chains[ci].bones)
          /\ \A i \in 1..Len(chains[ci].bones) :
                /\ chains'[ci].bones[i].length = chains[ci].bones[i].length
                /\ chains'[ci].bones[i].original_length
                       = chains[ci].bones[i].original_length]_vars

\* an IK chain of two bones of length 5 has been moved with the skeleton
\* and solved again for its target
C25_Witness ==
    /\ last.op = "move"
    /\ Len(chains) = 1
    /\ chains[1].is_ik
    /\ chains[1].parent_skeleton
    /\ pivot(chains[1].bones[1]) = <<1, 0>>
    /\ Len(chains[1].bones) = 2
    /\ chains[1].bones[1].length = 5
    /\ chains[1].bones[2].length = 5

\* the chain is owned by the skeleton, is not an IK chain and has a bone
\* that the point hits
Selects(c, px, py) == c.parent_skeleton /\ ~c.is_ik /\ Hits(c, px, py) # {}

\* C26: skeleton.select_bone(mx, my) returns true exactly when some chain
\* of the skeleton that is not an IK chain has a bone the point hits; it
\* then selects the hit bone of lowest index in the first such chain, in the
\* order the chains were added, and leaves every other chain as it was, the
\* later chains with a hit bone included; when it returns false it leaves
\* all chains as they were.
C26_FirstChainSelects ==
    [][last'.op = "skeleton.select_bone" =>
         LET px == last'.a
             py == last'.b
             firsts == {k \in 1..Len(chains) :
                          /\ Selects(chains[k], px, py)
                          /\ \A j \in 1..(k - 1) : ~Selects(chains[j], px, py)}
         IN  /\ last'.ret <=> (firsts # {})
             /\ firsts = {} => chains' = chains
             /\ \A k \in firsts :
                   /\ \A j \in 1..Len(chains) : j # k => chains'[j] = chains[j]
                   /\ \E i \in Hits(chains[k], px, py) :
                         /\ \A h \in Hits(chains[k], px, py) : i <= h
                         /\ chains'[k].selected = i - 1
                         /\ \A b \in 1..Len(chains'[k].bones) :
                               chains'[k].bones[b].selected <=> (b = i)]_vars

\* the point hits the second bone of all three chains: the IK chain is
\* passed over, the second chain selects its second bone, the third chain
\* keeps its first bone selected
C26_Witness ==
    /\ last.op = "skeleton.select_bone"
    /\ last.ret
    /\ Len(chains) = 3
    /\ chains[1].is_ik
    /\ Hits(chains[1], last.a, last.b) = {2}
    /\ ~chains[2].is_ik
    /\ chains[2].selected = 1
    /\ chains[2].bones[2].selected
    /\ ~chains[3].is_ik
    /\ Hits(chains[3], last.a, last.b) = {2}
    /\ chains[3].selected = 0
    /\ chains[3].bones[1].selected

\* C27: no operation ends in an error: the construction of a chain from
\* any list of lengths, fk, ik, select_bone, update in any mode,
\* update_world_positions, add_chain, move and set_position all return
\* normally.
C27_NoError == last.err = "none"

C29_IkConnected ==
    last.op = "ik" =>
        LET bones == chains[last.ci].bones
        IN  /\ Connected(bones)
            /\ Dist2(end_pos(bones[Len(bones)]), pivot(bones[1]))
                   <= sum_lengths(bones, 1) * sum_lengths(bones, 1)

\* C30: no call of update, in any mode and with any time, mouse position
\* and keys, and no call of select_bone changes the pivot of the first bone
\* of a chain; only move and set_position of the skeleton and
\* update_world_positions can change it, and update_world_positions on a
\* chain without a skeleton changes nothing of the chain.
C30_RootFixed ==
    [][\A ci \in 1..Len(chains) :
          /\ pivot(chains'[ci].bones[1]) # pivot(chains[ci].bones[1]) =>
                 last'.op \in {"move", "set_position", "update_world_positions"}
          /\ (/\ last'.op = "update_world_positions"
              /\ last'.ci = ci
              /\ ~chains[ci].parent_skeleton) => chains'[ci] = chains[ci]]_vars

\* an update in the Keyboard mode has moved the target of an IK chain of
\* the skeleton from (10, 0) to (7, 0): the chain is solved again from its
\* first pivot, which the skeleton had moved to (1, 0)
C30_Witness ==
    /\ last.op = "update"
    /\ last.args.keys = {"LEFT"}
    /\ Len(chains) = 1
    /\ chains[1].is_ik
    /\ chains[1].parent_skeleton
    /\ chains[1].mode = 3
    /\ chains[1].target = <<7, 0>>
    /\ skeleton.x = 1
    /\ pivot(chains[1].bones[1]) = <<1, 0>>
    /\ pivot(chains[1].bones[2]) = <<6, 0>>

====
